---- MODULE Spec2Model ----
(***************************************************************************)
(* Model of threads.c: the defender thread (startDef), the attacker thread *)
(* (startAtk), the missile threads (launchMissile) and the curses window   *)
(* they share under one mutex.                                             *)
(*                                                                         *)
(* The window is a height x width grid of glyphs.  Every printable         *)
(* character that is none of ' ', '#', '|', '_', '?', '*' is the glyph     *)
(* "t" (message text): the code compares cells only against those six.     *)
(* The messages of displayMessage keep their structure (three parts per    *)
(* announcement, wrapping at the window width) and are shortened to        *)
(* MsgLen glyphs per part, as the window is.                               *)
(***************************************************************************)
EXTENDS Integers, Sequences, FiniteSets, TLC

\* ------------------------------------------------------------------ bounds
MaxMissiles == 2
MsgLen == 1
MaxWidth == 40

\* -------------------------------------------------------- program constants
MAX_PACKET == 8
PACKET_WIDTH == 32
SHIELD_LEN == 5
FLOOR == 2
START_ROW == 2

BLANK == " "
SHIELD == "#"
MISSILE == "|"
ROOF == "_"
SMOKE == "?"
BOOM == "*"
TEXT == "t"
ERR == "ERR"
NUL == "NUL"

\* ------------------------------------------------------------ curses window
\* F(v), with v computed once: the calls on the window follow one another,
\* each on the window the one before left
Then(v, F(_)) == CHOOSE out \in {F(x) : x \in {v}} : TRUE

InWin(g, r, c) == r \in DOMAIN g /\ c \in DOMAIN g[r]

\* mvinch: the glyph at (r, c), ERR outside the window
MvInCh(g, r, c) == IF InWin(g, r, c) THEN g[r][c] ELSE ERR

\* mvdelch: delete the cell, the rest of the line moves left, a blank enters
MvDelCh(win, r, c) ==
    Then(win, LAMBDA g :
        IF ~InWin(g, r, c) THEN g
        ELSE [g EXCEPT ![r] = [j \in DOMAIN g[r] |->
                 IF j < c THEN g[r][j]
                 ELSE IF (j + 1) \in DOMAIN g[r] THEN g[r][j + 1] ELSE BLANK]])

\* mvinsch: insert before the cell, the rest of the line moves right, the
\* last glyph of the line is lost
MvInsCh(win, r, c, ch) ==
    Then(win, LAMBDA g :
        IF ~InWin(g, r, c) THEN g
        ELSE [g EXCEPT ![r] = [j \in DOMAIN g[r] |->
                 IF j < c THEN g[r][j]
                 ELSE IF j = c THEN ch ELSE g[r][j - 1]]])

\* the pair mvdelch(r, c); mvinsch(r, c, ch) the threads use to set a cell
PutCh(g, r, c, ch) == MvInsCh(MvDelCh(g, r, c), r, c, ch)

BlankWindow(h, w) == [r \in 0..(h - 1) |-> [c \in 0..(w - 1) |-> BLANK]]

\* ------------------------------------------------------------- the scenario
\* game->size, game->tallest and the column height launchMissile and
\* initDisplay use: columns beyond the layout stand at the floor
Size(lay) == Len(lay)

RECURSIVE TallestFrom(_, _, _)
TallestFrom(lay, k, best) ==
    IF k > Len(lay) THEN best
    ELSE TallestFrom(lay, k + 1, IF lay[k] > best THEN lay[k] ELSE best)

Tallest(lay) == TallestFrom(lay, 1, 0)

ColHeight(lay, x) == IF x > Size(lay) - 1 THEN FLOOR ELSE lay[x + 1]

\* main's geometry check: the window is tall enough for the layout
GeometryOk(h, tall) == h - (IF tall < 2 THEN 2 ELSE tall) - 2 - 1 - 2 >= 0

\* a packetSize without the cap for wide windows
PacketSizeNoCap(w) == IF w \div 4 = 0 THEN w ELSE w \div 4

\* startAtk's packetSize
PacketSize(w) ==
    IF w > PACKET_WIDTH THEN MAX_PACKET
    ELSE IF w \div 4 = 0 THEN w ELSE w \div 4

\* -------------------------------------------------------------- initDisplay
RECURSIVE InsColumn(_, _, _, _, _)
InsColumn(g, j, last, c, ch) ==
    IF j > last THEN g
    ELSE InsColumn(MvInsCh(g, j, c, ch), j + 1, last, c, ch)

\* the wall drawn over the roof of the column to the left when the city
\* steps down
CloseLeft(g, i, prev, h) ==
    IF MvInCh(g, h - prev, i - 1) = ROOF
    THEN InsColumn(MvDelCh(g, h - prev, i - 1), h - prev + 1, h - 2, i - 1, MISSILE)
    ELSE g

DrawColumn(g, i, prev, curr, h) ==
    IF curr > 2 THEN
        IF curr = prev THEN MvInsCh(g, h - curr, i, ROOF)
        ELSE IF curr < prev THEN MvInsCh(CloseLeft(g, i, prev, h), h - curr, i, ROOF)
        ELSE InsColumn(g, h - curr + 1, h - 2, i, MISSILE)
    ELSE IF curr = 1 \/ curr = 2 THEN
        MvInsCh(IF prev > 2 THEN CloseLeft(g, i, prev, h) ELSE g, h - curr, i, ROOF)
    ELSE g

RECURSIVE DrawCity(_, _, _, _, _, _)
DrawCity(g, i, prev, lay, h, w) ==
    IF i >= w THEN g
    ELSE Then(DrawColumn(g, i, prev, ColHeight(lay, i), h), LAMBDA g1 :
              DrawCity(g1, i + 1, ColHeight(lay, i), lay, h, w))

InitShieldY(h, tall) == h - (IF tall < 2 THEN 2 ELSE tall) - 2
InitShieldX(w) == w \div 2 - 2

RECURSIVE InsShield(_, _, _, _)
InsShield(g, k, sy, sx) ==
    IF k >= SHIELD_LEN THEN g
    ELSE InsShield(MvInsCh(g, sy, sx, SHIELD), k + 1, sy, sx)

InitDisplay(lay, h, w) ==
    InsShield(DrawCity(BlankWindow(h, w), 0, 2, lay, h, w), 0,
              InitShieldY(h, Tallest(lay)), InitShieldX(w))

\* ----------------------------------------------------------- displayMessage
Text(n) == [k \in 1..n |-> TEXT]

\* the first loop of displayMessage: with the cursor in column 0, skip the
\* rows whose first cell is taken; the result h stands for "no row left"
RECURSIVE SkipRows(_, _, _, _)
SkipRows(g, r, c, h) ==
    IF c = 0 /\ MvInCh(g, r, c) # BLANK /\ MvInCh(g, r, c) # MISSILE
    THEN IF r = 0 \/ r = 1 THEN r
         ELSE IF r + 1 >= h THEN h ELSE SkipRows(g, r + 1, c, h)
    ELSE r

RECURSIVE WriteChars(_, _, _, _, _, _, _, _, _)
WriteChars(g, str, k, r, c, oldr, oldc, h, w) ==
    IF k > Len(str) THEN [ok |-> TRUE, g |-> g, r |-> r + c \div w, c |-> c]
    ELSE IF c \div w + r >= h THEN [ok |-> FALSE, g |-> g, r |-> oldr, c |-> oldc]
    ELSE WriteChars(PutCh(g, c \div w + r, c % w, str[k]), str, k + 1, r, c + 1,
                    oldr, oldc, h, w)

\* displayMessage(str, &r, &c, b): the window, *r and *c afterwards, and the
\* value returned
DisplayMessage(g, str, r, c, b, h, w) ==
    IF r >= h \/ r < 0 THEN [ok |-> FALSE, g |-> g, r |-> r, c |-> c]
    ELSE LET r1 == SkipRows(g, r, c, h) IN
         IF r1 >= h THEN [ok |-> FALSE, g |-> g, r |-> r, c |-> c]
         ELSE LET r2 == IF r1 # 0 /\ r1 # 1 /\ b /\ r1 > 0 /\ MvInCh(g, r1 - 1, 0) # BLANK
                        THEN r1 + 1 ELSE r1 IN
              IF r2 >= h THEN [ok |-> FALSE, g |-> g, r |-> r, c |-> c]
              ELSE WriteChars(g, str, 1, r2, c, r, c, h, w)

\* the callers' pattern: try at the message row, and when that fails write
\* from row 1 and keep the larger row.  d is [g, row, col].
Retry(a, str, h, w) ==
    Then(DisplayMessage(a.g, str, 1, a.c, FALSE, h, w),
         LAMBDA t : [g |-> t.g, row |-> IF t.r > a.r THEN t.r ELSE a.r, col |-> t.c])

Say(d, str, b, h, w) ==
    Then(DisplayMessage(d.g, str, d.row, d.col, b, h, w),
         LAMBDA a : IF a.ok THEN [g |-> a.g, row |-> a.r, col |-> a.c]
                    ELSE Retry(a, str, h, w))

\* "The " name " ... has ended.", then col = 0
Announce(d, h, w) ==
    Then(Say(d, Text(MsgLen), TRUE, h, w), LAMBDA d1 :
    Then(Say(d1, Text(MsgLen), FALSE, h, w), LAMBDA d2 :
    Then(Say(d2, Text(MsgLen), FALSE, h, w), LAMBDA d3 :
         [d3 EXCEPT !.col = 0])))

\* startAtk's report of a failed calloc: "startAtk: " and strerror(errno)
\* from row 1, then col = 0
ReportAlloc(d, h, w) ==
    Then(DisplayMessage(d.g, Text(MsgLen), 1, d.col, FALSE, h, w), LAMBDA a :
    Then(DisplayMessage(a.g, Text(MsgLen), a.r, a.c, FALSE, h, w), LAMBDA t :
         [g |-> t.g, row |-> IF t.r > d.row THEN t.r ELSE d.row, col |-> 0]))

\* main's instructions on row 0, then col = 0 (row is not touched)
Instructions(g, h, w) == DisplayMessage(g, Text(MsgLen), 0, 0, FALSE, h, w).g

\* -------------------------------------------------------------------- state
VARIABLES
    width, height,      \* getmaxyx: the window's size
    layout, tallest,    \* game->layout (a sequence, column x is layout[x + 1]), game->tallest
    budget,             \* the missile count of the config file (0: unlimited)
    totalMissiles,      \* attacker->totalMissiles (-1: unlimited)
    gameOver,           \* game->gameOver
    shieldX, shieldY,   \* defender->shieldX, defender->shieldY
    grid,               \* the curses window
    row, col,           \* the message cursor
    mutex,              \* the holder of the mutex, or Free; every critical section is one step
    defpc, b,           \* startDef: its position and its local b
    atkpc, missilesOk,  \* startAtk: its position, and whether calloc returned a batch
    packetSize,         \* startAtk: its local packetSize (0 before it is computed)
    i, n,               \* startAtk: the spawn index i and the join index n
    mpc,                \* launchMissile, per slot of the batch: its position
    mx, my, mc,         \* missiles[s].x, .y, .c
    prevc,              \* launchMissile's local prevc
    created,            \* observer: the number of pthread_create calls of startAtk,
                        \* counted up to MaxMissiles + 1
    live,               \* observer: the missile threads created and not yet returned
    mainpc              \* main: its position after starting the two threads

vars == <<width, height, layout, tallest, budget, totalMissiles, gameOver,
          shieldX, shieldY, grid, row, col, mutex, defpc, b, atkpc, missilesOk,
          packetSize, i, n, mpc, mx, my, mc, prevc, created, live, mainpc>>

Free == <<"free", 0>>

\* the holders of the mutex: the thread that called pthread_mutex_lock
DefHolds == <<"def", 0>>
AtkHolds == <<"atk", 0>>
MissileHolds(s) == <<"missile", s>>

Slots == 0..(PacketSize(width) - 1)

Live(s) == s \in Slots /\ mpc[s] \in {"start", "sleep"}

\* the runs start from these windows and layouts <<width, height, layout>>:
\* a one-column window over a column of height 0; two columns (a batch of
\* two missiles) over a column of height 1, and over one of height 3; four
\* columns, narrower than the shield; six columns with the two-storey city
\* a missing layout gives, where the shield can move; and a layout wider than
\* the window.  Every height passes main's geometry check.
Scenarios ==
    { <<1, 7, <<0>>>>,
      <<2, 7, <<1>>>>,
      <<2, 8, <<3>>>>,
      <<4, 7, <<2, 2>>>>,
      <<6, 7, <<>>>>,
      <<1, 8, <<2, 3>>>> }

\* the budgets of the config file: 1..MaxMissiles, and 0 (unlimited) in the
\* windows of at most four columns, where the runs without end stay few
Budgets(w) == IF w <= 4 THEN 0..MaxMissiles ELSE 1..MaxMissiles

\* every slot a batch can have in these windows
AllSlots == UNION {0..(PacketSize(sc[1]) - 1) : sc \in Scenarios}

\* the state in which main has created the defender and the attacker thread
InitFrom(S) ==
    \E sc \in S :
    \E N \in Budgets(sc[1]) :
    LET w == sc[1]
        h == sc[2]
        lay == sc[3]
    IN
        /\ GeometryOk(h, Tallest(lay))
        /\ width = w
        /\ height = h
        /\ layout = lay
        /\ tallest = Tallest(lay)
        /\ budget = N
        /\ totalMissiles = (IF N = 0 THEN -1 ELSE N)
        /\ gameOver = FALSE
        /\ shieldY = InitShieldY(h, Tallest(lay))
        /\ shieldX = InitShieldX(w)
        /\ grid = Instructions(InitDisplay(lay, h, w), h, w)
        /\ row = 2
        /\ col = 0
        /\ mutex = Free
        /\ defpc = "test"
        /\ b = TRUE
        /\ atkpc = "alloc"
        /\ missilesOk = TRUE
        /\ packetSize = 0
        /\ i = 0
        /\ n = 0
        /\ mpc = [s \in 0..(PacketSize(w) - 1) |-> "idle"]
        /\ mx = [s \in 0..(PacketSize(w) - 1) |-> 0]
        /\ my = [s \in 0..(PacketSize(w) - 1) |-> 0]
        /\ mc = [s \in 0..(PacketSize(w) - 1) |-> NUL]
        /\ prevc = [s \in 0..(PacketSize(w) - 1) |-> NUL]
        /\ created = 0
        /\ live = 0
        /\ mainpc = "join"

Init == InitFrom(Scenarios)

scenario == <<width, height, tallest, budget, shieldY>>
observers == <<created, live>>

\* ----------------------------------------------------------------- startDef
\* a loop test on the flag alone: while (!*gameOver)
DefTestFlagOnly ==
    /\ defpc = "test"
    /\ defpc' = (IF ~gameOver THEN "getch" ELSE "end")
    /\ UNCHANGED <<scenario, layout, totalMissiles, gameOver, shieldX, grid, row, col,
                   mutex, b, atkpc, missilesOk, packetSize, i, n, mpc, mx, my, mc, prevc,
                   observers, mainpc>>

\* while (!*gameOver || b)
DefTest ==
    /\ defpc = "test"
    /\ defpc' = (IF ~gameOver \/ b THEN "getch" ELSE "end")
    /\ UNCHANGED <<scenario, layout, totalMissiles, gameOver, shieldX, grid, row, col,
                   mutex, b, atkpc, missilesOk, packetSize, i, n, mpc, mx, my, mc, prevc,
                   observers, mainpc>>

\* a quit key that flips the flag instead of setting it
DefQuitToggle ==
    /\ defpc = "getch"
    /\ mutex = Free
    /\ mutex' = Free
    /\ gameOver' = ~gameOver
    /\ b' = FALSE
    /\ defpc' = "test"
    /\ UNCHANGED <<scenario, layout, totalMissiles, shieldX, grid, row, col,
                   atkpc, missilesOk, packetSize, i, n, mpc, mx, my, mc, prevc, observers, mainpc>>

\* a quit key that ends the defender's loop variable only
DefQuitLocal ==
    /\ defpc = "getch"
    /\ mutex = Free
    /\ mutex' = Free
    /\ b' = FALSE
    /\ defpc' = "test"
    /\ UNCHANGED <<scenario, layout, totalMissiles, gameOver, shieldX, grid, row, col,
                   atkpc, missilesOk, packetSize, i, n, mpc, mx, my, mc, prevc, observers, mainpc>>

\* a quit key whose branch returns to getch without the unlock
DefQuitHolding ==
    /\ defpc = "getch"
    /\ mutex = Free
    /\ mutex' = DefHolds
    /\ gameOver' = TRUE
    /\ b' = FALSE
    /\ defpc' = "getch"
    /\ UNCHANGED <<scenario, layout, totalMissiles, shieldX, grid, row, col,
                   atkpc, missilesOk, packetSize, i, n, mpc, mx, my, mc, prevc, observers, mainpc>>

\* getch returns 'q': lock; *gameOver = 1; b = 0; unlock
DefQuit ==
    /\ defpc = "getch"
    /\ mutex = Free
    /\ mutex' = Free
    /\ gameOver' = TRUE
    /\ b' = FALSE
    /\ defpc' = "test"
    /\ UNCHANGED <<scenario, layout, totalMissiles, shieldX, grid, row, col,
                   atkpc, missilesOk, packetSize, i, n, mpc, mx, my, mc, prevc, observers, mainpc>>

RECURSIVE PutShield(_, _, _, _)
PutShield(g, k, sy, sx) ==
    IF k >= SHIELD_LEN THEN g
    ELSE PutShield(PutCh(g, sy, sx + k, SHIELD), k + 1, sy, sx)

\* getch returns KEY_LEFT: lock; move the shield; unlock
DefLeft ==
    /\ defpc = "getch"
    /\ mutex = Free
    /\ mutex' = Free
    /\ IF shieldX > 0
       THEN /\ shieldX' = shieldX - 1
            /\ grid' = PutShield(PutCh(grid, shieldY, shieldX + 4, BLANK), 0,
                                 shieldY, shieldX - 1)
       ELSE UNCHANGED <<shieldX, grid>>
    /\ defpc' = "test"
    /\ UNCHANGED <<scenario, layout, totalMissiles, gameOver, row, col, b,
                   atkpc, missilesOk, packetSize, i, n, mpc, mx, my, mc, prevc, observers, mainpc>>

\* getch returns KEY_RIGHT: lock; move the shield; unlock
DefRight ==
    /\ defpc = "getch"
    /\ mutex = Free
    /\ mutex' = Free
    /\ IF shieldX < width - SHIELD_LEN
       THEN /\ shieldX' = shieldX + 1
            /\ grid' = PutShield(PutCh(grid, shieldY, shieldX, BLANK), 0,
                                 shieldY, shieldX + 1)
       ELSE UNCHANGED <<shieldX, grid>>
    /\ defpc' = "test"
    /\ UNCHANGED <<scenario, layout, totalMissiles, gameOver, row, col, b,
                   atkpc, missilesOk, packetSize, i, n, mpc, mx, my, mc, prevc, observers, mainpc>>

\* getch returns any other key
DefOther ==
    /\ defpc = "getch"
    /\ defpc' = "test"
    /\ UNCHANGED <<scenario, layout, totalMissiles, gameOver, shieldX, grid, row, col,
                   mutex, b, atkpc, missilesOk, packetSize, i, n, mpc, mx, my, mc, prevc,
                   observers, mainpc>>

\* after the loop: lock; "The <name> defense has ended."; unlock; return
DefEnd ==
    /\ defpc = "end"
    /\ mutex = Free
    /\ mutex' = Free
    /\ \E d \in {Announce([g |-> grid, row |-> row, col |-> col], height, width)} :
         /\ grid' = d.g
         /\ row' = d.row
         /\ col' = d.col
    /\ defpc' = "done"
    /\ UNCHANGED <<scenario, layout, totalMissiles, gameOver, shieldX, b,
                   atkpc, missilesOk, packetSize, i, n, mpc, mx, my, mc, prevc, observers, mainpc>>

\* ------------------------------------------------------------ launchMissile
\* the glyph launchMissile keeps to restore: a missile glyph counts as blank
FirstPrev(g, y, x) == IF MvInCh(g, y, x) = MISSILE THEN BLANK ELSE MvInCh(g, y, x)

\* lock; remember the glyph under the missile; draw the missile; unlock;
\* while (c != '*'): the missile enters usleep
MStart(s) ==
    /\ s \in Slots
    /\ mpc[s] = "start"
    /\ mutex = Free
    /\ mutex' = Free
    /\ prevc' = [prevc EXCEPT ![s] = FirstPrev(grid, my[s], mx[s])]
    /\ grid' = PutCh(grid, my[s], mx[s], mc[s])
    /\ mpc' = [mpc EXCEPT ![s] = "sleep"]
    /\ UNCHANGED <<scenario, layout, totalMissiles, gameOver, shieldX, row, col,
                   defpc, b, atkpc, missilesOk, packetSize, i, n, mx, my, mc, observers, mainpc>>

\* a tick that forgets to advance the missile
NextRowStuck(y) == y

\* nmissile->y++
NextRow(y) == y + 1

\* the first test of a tick: the shield, or an explosion above the city
HitsShield(c, y) == c = SHIELD \/ (c = BOOM /\ y < height - tallest)

\* an impact row one row too low
HitsColumnLow(lay, x, y) == y = height - ColHeight(lay, x) + 2

\* the second test: the missile is on the impact row of its column
HitsColumn(lay, x, y) == y = height - ColHeight(lay, x) + 1

\* an impact that takes a storey from a column at the floor as well
ErodeAlways(lay, x) ==
    IF x < Size(lay)
    THEN [lay EXCEPT ![x + 1] = lay[x + 1] - 1]
    ELSE lay

\* the column loses one storey unless it stands at the floor
Erode(lay, x) ==
    IF x < Size(lay) /\ lay[x + 1] # FLOOR
    THEN [lay EXCEPT ![x + 1] = lay[x + 1] - 1]
    ELSE lay

\* the glyph to restore on the next tick when the missile flies on
NextPrev(c) == IF c \in {MISSILE, ROOF, SMOKE, BOOM} THEN BLANK ELSE c

\* the loop's exits after a tick: if (y > height) break; while (c != '*')
Returns(y, c) == y > height \/ c = BOOM

\* usleep is over: lock; one pass of the loop body; unlock; then the loop's
\* exits
MTick(s) ==
    /\ s \in Slots
    /\ mpc[s] = "sleep"
    /\ mutex = Free
    /\ mutex' = Free
    /\ \E x \in {mx[s]}, y \in {NextRow(my[s])} :
       \E g1 \in {IF my[s] < height THEN PutCh(grid, my[s], x, prevc[s]) ELSE grid} :
       \E c \in {IF y >= height THEN BLANK ELSE MvInCh(g1, y, x)} :
       \E shieldHit \in {HitsShield(c, y)} :
       \E columnHit \in {~shieldHit /\ HitsColumn(layout, x, y)} :
       \E newc \in {IF shieldHit \/ columnHit THEN BOOM ELSE mc[s]} :
       \E g2 \in {IF y < height THEN PutCh(g1, y, x, newc) ELSE g1} :
          /\ my' = [my EXCEPT ![s] = y]
          /\ mc' = [mc EXCEPT ![s] = newc]
          /\ layout' = (IF columnHit THEN Erode(layout, x) ELSE layout)
          /\ grid' = (IF newc = BOOM /\ y <= height
                      THEN PutCh(g2, y - 1, x, SMOKE) ELSE g2)
          /\ IF Returns(y, newc)
             THEN /\ mpc' = [mpc EXCEPT ![s] = "done"]
                  /\ prevc' = [prevc EXCEPT ![s] = NUL]
                  /\ live' = live - 1
             ELSE /\ mpc' = [mpc EXCEPT ![s] = "sleep"]
                  /\ prevc' = [prevc EXCEPT ![s] =
                                  IF shieldHit \/ columnHit THEN prevc[s] ELSE NextPrev(c)]
                  /\ live' = live
    /\ UNCHANGED <<scenario, totalMissiles, gameOver, shieldX, row, col,
                   defpc, b, atkpc, missilesOk, packetSize, i, n, mx, created, mainpc>>

\* ----------------------------------------------------------------- startAtk
\* packetSize is computed; calloc returns the batch
AtkAlloc ==
    /\ atkpc = "alloc"
    /\ packetSize' = PacketSize(width)
    /\ atkpc' = "loop"
    /\ UNCHANGED <<scenario, layout, totalMissiles, gameOver, shieldX, grid, row, col,
                   mutex, defpc, b, missilesOk, i, n, mpc, mx, my, mc, prevc,
                   observers, mainpc>>

\* a failed calloc that is reported without setting the flag
AtkAllocFailSilent ==
    /\ atkpc = "alloc"
    /\ packetSize' = PacketSize(width)
    /\ mutex = Free
    /\ mutex' = Free
    /\ missilesOk' = FALSE
    /\ \E d \in {ReportAlloc([g |-> grid, row |-> row, col |-> col], height, width)} :
         /\ grid' = d.g
         /\ row' = d.row
         /\ col' = d.col
    /\ atkpc' = "loop"
    /\ UNCHANGED <<scenario, layout, totalMissiles, gameOver, shieldX, defpc, b, i, n,
                   mpc, mx, my, mc, prevc, observers, mainpc>>

\* packetSize is computed; calloc returns NULL: lock; report;
\* *gameOver = 1; unlock
AtkAllocFail ==
    /\ atkpc = "alloc"
    /\ packetSize' = PacketSize(width)
    /\ mutex = Free
    /\ mutex' = Free
    /\ missilesOk' = FALSE
    /\ \E d \in {ReportAlloc([g |-> grid, row |-> row, col |-> col], height, width)} :
         /\ grid' = d.g
         /\ row' = d.row
         /\ col' = d.col
    /\ gameOver' = TRUE
    /\ atkpc' = "loop"
    /\ UNCHANGED <<scenario, layout, totalMissiles, shieldX, defpc, b, i, n,
                   mpc, mx, my, mc, prevc, observers, mainpc>>

\* while (!*gameOver) { int i = 0; while (i < packetSize) { usleep ...
AtkLoopTest ==
    /\ atkpc = "loop"
    /\ IF ~gameOver
       THEN /\ i' = 0
            /\ atkpc' = "spawn"
       ELSE /\ i' = i
            /\ atkpc' = "end"
    /\ UNCHANGED <<scenario, layout, totalMissiles, gameOver, shieldX, grid, row, col,
                   mutex, defpc, b, missilesOk, packetSize, n, mpc, mx, my, mc, prevc,
                   observers, mainpc>>

\* usleep is over: missiles[i] = {rand() % width, 2, '|'}; pthread_create; i++
AtkSpawn ==
    /\ atkpc = "spawn"
    /\ \E x \in 0..(width - 1) :
         /\ mx' = [mx EXCEPT ![i] = x]
         /\ my' = [my EXCEPT ![i] = START_ROW]
         /\ mc' = [mc EXCEPT ![i] = MISSILE]
    /\ mpc' = [mpc EXCEPT ![i] = "start"]
    /\ i' = i + 1
    /\ created' = (IF created > MaxMissiles THEN created ELSE created + 1)
    /\ live' = live + 1
    /\ atkpc' = "check"
    /\ UNCHANGED <<scenario, layout, totalMissiles, gameOver, shieldX, grid, row, col,
                   mutex, defpc, b, missilesOk, packetSize, n, prevc, mainpc>>

\* the budget test with a post-decrement: totalMissiles-- == 0
SpendLate(total) ==
    IF total > 0 THEN [total |-> total - 1, spent |-> total = 0]
    ELSE [total |-> total, spent |-> FALSE]

\* the budget test without the test for a budget: --totalMissiles <= 0
SpendLoose(total) == [total |-> total - 1, spent |-> total - 1 <= 0]

\* the budget test of the spawn loop: totalMissiles > 0 ? --totalMissiles == 0 : 0
\* gives the counter afterwards and whether the budget is spent
Spend(total) ==
    IF total > 0 THEN [total |-> total - 1, spent |-> total - 1 = 0]
    ELSE [total |-> total, spent |-> FALSE]

\* a test after pthread_create that looks at the budget only
AtkCheckBudgetOnly ==
    /\ atkpc = "check"
    /\ totalMissiles' = Spend(totalMissiles).total
    /\ IF Spend(totalMissiles).spent
       THEN atkpc' = "over" /\ n' = n
       ELSE IF i < packetSize
       THEN atkpc' = "spawn" /\ n' = n
       ELSE atkpc' = "join" /\ n' = 0
    /\ UNCHANGED <<scenario, layout, gameOver, shieldX, grid, row, col,
                   mutex, defpc, b, missilesOk, packetSize, i, mpc, mx, my, mc, prevc,
                   observers, mainpc>>

\* if (*gameOver || (totalMissiles > 0 ? --totalMissiles == 0 : 0)), and the
\* inner loop's test when the condition is false
AtkCheck ==
    /\ atkpc = "check"
    /\ IF gameOver
       THEN /\ atkpc' = "over"
            /\ UNCHANGED <<totalMissiles, n>>
       ELSE /\ totalMissiles' = Spend(totalMissiles).total
            /\ IF Spend(totalMissiles).spent
               THEN atkpc' = "over" /\ n' = n
               ELSE IF i < packetSize
               THEN atkpc' = "spawn" /\ n' = n
               ELSE atkpc' = "join" /\ n' = 0
    /\ UNCHANGED <<scenario, layout, gameOver, shieldX, grid, row, col,
                   mutex, defpc, b, missilesOk, packetSize, i, mpc, mx, my, mc, prevc,
                   observers, mainpc>>

\* a break out of the spawn loop that does not set the flag
AtkBreakOnly ==
    /\ atkpc = "over"
    /\ mutex = Free
    /\ mutex' = Free
    /\ n' = 0
    /\ atkpc' = "join"
    /\ UNCHANGED <<scenario, layout, totalMissiles, gameOver, shieldX, grid, row, col,
                   defpc, b, missilesOk, packetSize, i, mpc, mx, my, mc, prevc, observers, mainpc>>

\* lock; *gameOver = 1; unlock; break
AtkSetOver ==
    /\ atkpc = "over"
    /\ mutex = Free
    /\ mutex' = Free
    /\ gameOver' = TRUE
    /\ n' = 0
    /\ atkpc' = "join"
    /\ UNCHANGED <<scenario, layout, totalMissiles, shieldX, grid, row, col,
                   defpc, b, missilesOk, packetSize, i, mpc, mx, my, mc, prevc, observers, mainpc>>

\* a join that does not wait for the missile to return
AtkJoinNoWait ==
    /\ atkpc = "join"
    /\ n < i
    /\ n' = n + 1
    /\ atkpc' = (IF n + 1 < i THEN "join" ELSE "loop")
    /\ UNCHANGED <<scenario, layout, totalMissiles, gameOver, shieldX, grid, row, col,
                   mutex, defpc, b, missilesOk, packetSize, i, mpc, mx, my, mc, prevc,
                   observers, mainpc>>

\* pthread_join(tids[n]) returns once missile n has returned; after the
\* last join the outer loop tests gameOver again
AtkJoin ==
    /\ atkpc = "join"
    /\ n < i
    /\ mpc[n] = "done"
    /\ n' = n + 1
    /\ atkpc' = (IF n + 1 < i THEN "join" ELSE "loop")
    /\ UNCHANGED <<scenario, layout, totalMissiles, gameOver, shieldX, grid, row, col,
                   mutex, defpc, b, missilesOk, packetSize, i, mpc, mx, my, mc, prevc,
                   observers, mainpc>>

\* after the loop: lock; "The <name> attack has ended."; unlock;
\* free(missiles); return
AtkEnd ==
    /\ atkpc = "end"
    /\ mutex = Free
    /\ mutex' = Free
    /\ \E d \in {Announce([g |-> grid, row |-> row, col |-> col], height, width)} :
         /\ grid' = d.g
         /\ row' = d.row
         /\ col' = d.col
    /\ atkpc' = "done"
    /\ UNCHANGED <<scenario, layout, totalMissiles, gameOver, shieldX, defpc, b,
                   missilesOk, packetSize, i, n, mpc, mx, my, mc, prevc, observers, mainpc>>

\* --------------------------------------------------------------------- main
\* both threads joined: "hit enter to close...", col = 0
MainClose ==
    /\ mainpc = "join"
    /\ defpc = "done"
    /\ atkpc = "done"
    /\ \E d \in {Say([g |-> grid, row |-> row, col |-> col], Text(MsgLen), FALSE,
                     height, width)} :
         /\ grid' = d.g
         /\ row' = d.row
    /\ col' = 0
    /\ mainpc' = "prompt"
    /\ UNCHANGED <<scenario, layout, totalMissiles, gameOver, shieldX, mutex,
                   defpc, b, atkpc, missilesOk, packetSize, i, n, mpc, mx, my, mc, prevc, observers>>

\* getch returns '\n': endwin, destroyGame
MainExit ==
    /\ mainpc = "prompt"
    /\ mainpc' = "exit"
    /\ UNCHANGED <<scenario, layout, totalMissiles, gameOver, shieldX, grid, row, col,
                   mutex, defpc, b, atkpc, missilesOk, packetSize, i, n, mpc, mx, my, mc, prevc,
                   observers>>

\* ------------------------------------------------------------ specification
Defender ==
    \/ DefTest
    \/ DefQuit
    \/ DefLeft
    \/ DefRight
    \/ DefOther
    \/ DefEnd

Attacker ==
    \/ AtkAlloc
    \/ AtkAllocFail
    \/ AtkLoopTest
    \/ AtkSpawn
    \/ AtkCheck
    \/ AtkSetOver
    \/ AtkJoin
    \/ AtkEnd

Missile(s) ==
    \/ MStart(s)
    \/ MTick(s)

Main ==
    \/ MainClose
    \/ MainExit

Next ==
    \/ Defender
    \/ Attacker
    \/ \E s \in AllSlots : Missile(s)
    \/ Main

Spec == Init /\ [][Next]_vars

\* Every thread that can take a step takes one in the end: the scheduler
\* runs each thread and the mutex is granted to each waiter.  The keys are
\* the user's: no key ever has to arrive.
Fairness ==
    /\ WF_vars(DefTest)
    /\ WF_vars(DefEnd)
    /\ WF_vars(Attacker)
    /\ \A s \in AllSlots : WF_vars(Missile(s))

\* the runs whose liveness is checked start from these windows
LiveScenarios ==
    { <<1, 7, <<0>>>>,
      <<2, 7, <<1>>>>,
      <<4, 7, <<2, 2>>>> }

LiveInit == InitFrom(LiveScenarios)

LiveSpec == LiveInit /\ [][Next]_vars /\ Fairness

\* startAtk's first statements in every window 1..MaxWidth columns wide
\* (seven rows, no layout line): packetSize is computed and calloc returns
PacketScenarios == { <<w, 7, <<>>>> : w \in 1..MaxWidth }

PacketInit == InitFrom(PacketScenarios)

PacketNext ==
    \/ AtkAlloc
    \/ AtkAllocFail

PacketSpec == PacketInit /\ [][PacketNext]_vars

\* ------------------------------------------------------------------- claims
QuitPressed == ~b

\* C1: every layout entry stays within 0..tallest, and no missile tick
\* raises an entry or takes one from 2 or more to below 2.
C1_LayoutInRange == \A k \in 1..Len(layout) : 0 <= layout[k] /\ layout[k] <= tallest

\* C1 as an action property: both states in range, no entry raised, none
\* taken from the floor or above to below the floor
C1_LayoutBounds ==
    [][/\ C1_LayoutInRange
       /\ C1_LayoutInRange'
       /\ \A k \in 1..Len(layout) :
            /\ layout'[k] <= layout[k]
            /\ (layout[k] >= FLOOR => layout'[k] >= FLOOR)]_vars

\* C2, as claimed: with a budget N > 0 the attacker never creates more than N
\* missile threads, and has created exactly N when it leaves its loop.
C2_ExactlyBudget ==
    budget > 0 =>
        /\ created <= budget
        /\ (atkpc \in {"end", "done"} => created = budget)

\* C2, amended: never more than N, and exactly N when the attacker leaves its
\* loop without the defender having quit and with the batch allocated.
C2_BudgetNeverExceeded ==
    budget > 0 =>
        /\ created <= budget
        /\ (atkpc \in {"end", "done"} /\ ~QuitPressed /\ missilesOk => created = budget)

C2_Witness ==
    /\ budget = MaxMissiles
    /\ atkpc = "done"
    /\ ~QuitPressed
    /\ missilesOk
    /\ created = budget

\* C3: never more than packetSize missile threads are live at once.
C3_BatchBound == live <= PacketSize(width)

C3_Witness == PacketSize(width) >= 2 /\ live = PacketSize(width)

\* C5: the shield's left edge stays within 0..width - 5.
C5_ShieldInWindow == 0 <= shieldX /\ shieldX <= width - SHIELD_LEN

\* C6: gameOver never goes back from true to false.
C6_GameOverMonotonic == [][gameOver => gameOver']_vars

C6_Witness == gameOver /\ QuitPressed /\ budget > 0 /\ totalMissiles = 0

\* C4: every missile thread returns, exploded or past the field, after fewer
\* ticks than the field has rows.
C4_MissileReturns ==
    \A s \in AllSlots :
        Live(s) ~> (/\ s \in Slots
                    /\ mpc[s] = "done"
                    /\ (mc[s] = BOOM \/ my[s] > height)
                    /\ my[s] - START_ROW < height)

C4_Witness ==
    \E s \in Slots : mpc[s] = "done" /\ mc[s] = MISSILE /\ my[s] > height /\ gameOver

\* C7: with an unlimited budget and the batch allocated, gameOver is set by
\* the defender's quit key only, and while gameOver is false the attacker
\* comes again and again to the point just after pthread_create.
C7_UnlimitedAttack ==
    /\ [](budget = 0 /\ missilesOk /\ gameOver => QuitPressed)
    /\ (budget = 0 /\ missilesOk /\ ~gameOver /\ atkpc \notin {"alloc", "check"})
           ~> (gameOver \/ atkpc = "check")

C7_Witness == budget = 0 /\ ~gameOver /\ created > MaxMissiles /\ atkpc = "check"

C9_QuitEndsGame ==
    /\ [][(budget = 0 /\ gameOver /\ atkpc = "loop") => atkpc' # "spawn"]_vars
    /\ (budget = 0 /\ QuitPressed)
           ~> (defpc = "done" /\ atkpc = "done" /\ live = 0)

C9_Witness ==
    /\ budget = 0
    /\ QuitPressed
    /\ missilesOk
    /\ created >= 1
    /\ defpc = "done"
    /\ atkpc = "done"
    /\ live = 0

\* C10: a missile that steps onto the impact row of a column standing at the
\* floor explodes there and the column stays at the floor.
C10_FloorHit ==
    [][\A s \in AllSlots :
          (/\ s \in Slots
           /\ mpc[s] = "sleep"
           /\ my'[s] # my[s]
           /\ ColHeight(layout, mx[s]) = FLOOR
           /\ my'[s] = height - FLOOR + 1)
          => (/\ mc'[s] = BOOM
              /\ mpc'[s] = "done"
              /\ ColHeight(layout', mx[s]) = FLOOR)]_vars

C10_Witness ==
    \E s, t \in Slots :
        /\ s # t
        /\ mx[s] = mx[t]
        /\ ColHeight(layout, mx[s]) = FLOOR
        /\ mpc[s] = "done" /\ mc[s] = BOOM /\ my[s] = height - FLOOR + 1
        /\ mpc[t] = "done" /\ mc[t] = BOOM /\ my[t] = height - FLOOR + 1

\* C11: no thread holds the mutex while it waits in getch, in usleep or in
\* pthread_join.
C11_NoLockWhileBlocked ==
    /\ defpc = "getch" => mutex # DefHolds
    /\ atkpc \in {"spawn", "join"} => mutex # AtkHolds
    /\ \A s \in Slots : mpc[s] = "sleep" => mutex # MissileHolds(s)

C11_Witness ==
    /\ defpc = "getch"
    /\ shieldX # InitShieldX(width)
    /\ atkpc = "join"
    /\ \E s \in Slots : mpc[s] = "sleep" /\ my[s] > START_ROW

\* C12: every step that reads or writes gameOver is taken by a thread that
\* holds the mutex: the loop tests of startDef and startAtk and the test
\* after pthread_create.
C12_AccessUnderLock ==
    [][/\ (defpc = "test" /\ defpc' # "test") => mutex = DefHolds
       /\ (atkpc = "loop" /\ atkpc' # "loop") => mutex = AtkHolds
       /\ (atkpc = "check" /\ atkpc' # "check") => mutex = AtkHolds]_vars

\* C13, as claimed: once the attacker has spent its budget and set gameOver,
\* and the defender has not quit, the defender's loop test leaves the loop
\* and starts no further getch.
C13_ExitsWithoutQuit ==
    [][(/\ defpc = "test"
        /\ gameOver
        /\ ~QuitPressed
        /\ missilesOk
        /\ totalMissiles = 0) => defpc' # "getch"]_vars

\* C13, amended: the defender's loop test leaves the loop exactly when
\* gameOver is set and the quit key was received; with gameOver set by the
\* attacker alone it starts a further getch.
C13_ExitsOnQuitOnly ==
    [][(defpc = "test" /\ defpc' # "test")
          => (defpc' = "end" <=> (gameOver /\ QuitPressed))]_vars

C13_Witness ==
    /\ gameOver
    /\ ~QuitPressed
    /\ missilesOk
    /\ totalMissiles = 0
    /\ atkpc = "done"
    /\ defpc = "getch"

Min(x, y) == IF x < y THEN x ELSE y
Max(x, y) == IF x > y THEN x ELSE y

\* C14, as claimed: in every window packetSize is min(8, max(1, width / 4)).
C14_PacketFormula ==
    atkpc # "alloc" => packetSize = Min(8, Max(1, width \div 4))

\* C14, amended: packetSize is min(8, max(1, width / 4)) except in windows
\* two or three columns wide, where it is the width.
C14_PacketFormulaWide ==
    atkpc # "alloc" =>
        packetSize = (IF width \in {2, 3} THEN width
                      ELSE Min(8, Max(1, width \div 4)))

C14_Witness == atkpc # "alloc" /\ width > PACKET_WIDTH + 4 /\ packetSize = MAX_PACKET

\* C15: with a budget N > 0, after every pass of the spawn loop's test the
\* missiles created and the budget left add up to N.
C15_DecrementPerSpawn ==
    (budget > 0 /\ atkpc # "check") => created + totalMissiles = budget

\* C16: when the attacker is between batches (at the outer loop's test, or
\* about to create the first missile of a batch), at its announcement or
\* done, no missile thread is live.
C16_JoinBarrier ==
    (atkpc \in {"loop", "end", "done"} \/ (atkpc = "spawn" /\ i = 0))
        => (live = 0 /\ \A s \in Slots : ~Live(s))

C16_Witness ==
    /\ atkpc = "spawn"
    /\ i = 0
    /\ packetSize >= 2
    /\ created >= packetSize
    /\ live = 0
    /\ \A s \in Slots : mpc[s] = "done"

\* C17: after a failed calloc gameOver is set, no missile thread is ever
\* created, and the attacker goes from the outer loop's test to its
\* announcement and returns.
C17_AllocFailureEndsAttack ==
    /\ [](~missilesOk => /\ gameOver
                          /\ created = 0
                          /\ live = 0
                          /\ atkpc \in {"loop", "end", "done"})
    /\ (~missilesOk ~> atkpc = "done")

C17_Witness ==
    /\ ~missilesOk
    /\ atkpc = "done"
    /\ created = 0
    /\ ~QuitPressed
    /\ defpc = "getch"

\* C18: when every layout entry is at least 2, every missile stays above
\* row height and a missile that has returned has exploded.
C18_NoPastField ==
    (\A k \in 1..Len(layout) : layout[k] >= FLOOR)
        => \A s \in Slots : /\ my[s] < height
                             /\ (mpc[s] = "done" => mc[s] = BOOM)

C18_Witness ==
    /\ tallest = 3
    /\ layout = <<FLOOR>>
    /\ \E s \in Slots : /\ mpc[s] = "done"
                         /\ mx[s] = 0
                         /\ mc[s] = BOOM
                         /\ my[s] = height - 1

\* C19: while the game is on (no end message written yet), with the shield
\* inside the window and the mutex free, each of the five cells of the
\* shield row from shieldX on holds the shield glyph or an explosion.
C19_BarrierIntact ==
    (~gameOver /\ mutex = Free /\ 0 <= shieldX /\ shieldX <= width - SHIELD_LEN)
        => \A k \in 0..(SHIELD_LEN - 1) :
               MvInCh(grid, shieldY, shieldX + k) \in {SHIELD, BOOM}

\* C20: missile threads are created only by the step from the attacker's
\* usleep to its test after pthread_create, and once gameOver is set the
\* attacker never comes to that usleep again: after gameOver it creates at
\* most the one missile whose usleep it was in.
C20_OneMoreSpawn ==
    [][/\ live' > live => (atkpc = "spawn" /\ atkpc' = "check")
       /\ (gameOver /\ atkpc # "spawn") => atkpc' # "spawn"]_vars

C20_Witness ==
    /\ gameOver
    /\ QuitPressed
    /\ atkpc = "over"
    /\ i < packetSize
    /\ (budget = 0 \/ totalMissiles > 0)

====
